---- MODULE Spec2Model ----
(***************************************************************************)
(* State-machine model of the calibration driver                           *)
(* src/main/python/calibration/calibrate.py: the study orchestrator        *)
(* (__main__), the three objective functions, and the data loader and      *)
(* error metrics they call.                                                *)
(***************************************************************************)
EXTENDS Integers, Sequences, FiniteSets, TLC

(***************************************************************************)
(* Bounds of the model.                                                    *)
(***************************************************************************)
\* largest positional n_trials argument a session is started with
MaxNTrials == 2
\* largest number of trials the storage holds over all studies
MaxTotalTrials == 3
\* longest array handed to percentage_error
MaxLen == 2
\* days the simulation output and the reference files cover (day 1 .. MaxDay)
MaxDay == 7
\* largest number of newly contagious persons per simulated day
MaxCount == 2

(***************************************************************************)
(* Command line (argparse, lines 187-197).                                 *)
(***************************************************************************)
Modes == {"unconstrained", "ci_correction", "multi"}

Districts == {"Berlin", "unknown"}

Scenarios == {"SnzBerlinScenario25pct2020", "SnzMunichScenario25pct2020"}

Configs == [district : Districts, scenario : Scenarios]

ArgKeys == {"n_trials", "district", "scenario", "start", "end", "snapshot", "objective"}

ArgsSet ==
    { [n_trials |-> n, district |-> c.district, scenario |-> c.scenario,
       start |-> "2020-03-10", end |-> "2020-05-20", snapshot |-> "None",
       objective |-> o] :
        n \in 1..MaxNTrials, c \in Configs, o \in Modes }

\* the process's memory when no process runs
NoArgs == [k \in {} |-> "None"]

Unset == "unset"

(***************************************************************************)
(* The study storage (sqlite:///calibration.db behind optuna).             *)
(***************************************************************************)
NoAttrs == [k \in {} |-> "None"]

NoStudy == [exists |-> FALSE, directions |-> <<>>, user_attrs |-> NoAttrs, trials |-> <<>>]

VARIABLES
    storage,      \* study name -> persisted study (directions, user_attrs, trials)
    pc,           \* the orchestrator process: "exited" | "optimize"
    args,         \* the parsed command line of the running process
    study,        \* the study handle the process holds
    district,     \* module global set for the multi objective (line 205)
    scenario,     \* module global set for the multi objective (line 206)
    objective,    \* the objective function handed to study.optimize (line 218)
    n_done,       \* trials the optimize loop of this process has finished
    frames,       \* trial position in the study -> activation record of its objective
    error,        \* the exception that ended the last process, or "none"
    ran,          \* study name -> trials started over all sessions (history)
    read_paths,   \* study name -> the output paths its trials have read (history)
    pe_in,        \* the arguments of a call of percentage_error
    pe_out,       \* what that call returned or raised
    data_in,      \* the files and arguments of a call of read_data / calc_multi_error
    read_out,     \* what read_data returned or raised
    calc_out      \* what calc_multi_error returned or raised

\* the variables of the metric calls, which the orchestrator leaves alone
mvars == <<pe_in, pe_out, data_in, read_out, calc_out>>

vars == <<mvars, storage, pc, args, study, district, scenario, objective, n_done, frames, error, ran,
          read_paths>>

NoHandle == [study_name |-> Unset, n_objectives |-> 0]

\* a copy that keeps what the study already holds
copy_args_keep(attrs, a) == attrs @@ a

\* lines 215-216: for k, v in args.__dict__.items(): study.set_user_attr(k, v)
copy_args(attrs, a) == a @@ attrs

\* a creation that starts the named study afresh
create_study_reset(st, name, dirs) ==
    [st EXCEPT ![name] = [exists |-> TRUE, directions |-> dirs,
                          user_attrs |-> NoAttrs, trials |-> <<>>]]

\* optuna create_study(..., load_if_exists=True): the stored study when one of
\* that name exists, a fresh one with the given directions otherwise
create_study(st, name, dirs) ==
    IF st[name].exists
    THEN st
    ELSE [st EXCEPT ![name] = [exists |-> TRUE, directions |-> dirs,
                               user_attrs |-> NoAttrs, trials |-> <<>>]]

\* one study name for every mode
study_name_shared(a) == "unconstrained"

\* lines 201 and 210: study_name=args.objective
study_name(a) == a.objective

\* lines 199-212: which creation variant is used, and with which directions
main_directions(a) ==
    IF a.objective = "multi" THEN <<"minimize", "minimize", "minimize">> ELSE <<"minimize">>

\* line 218
select_objective(a) ==
    IF a.objective = "multi" THEN "objective_multi" ELSE "objective_unconstrained"

\* two trials at a time
n_jobs_parallel == 1 + 1

\* study.optimize(objective, n_trials=...) is given no n_jobs: optuna's default
n_jobs == 1

\* a number counted from the start of the session
next_trial_number_session(st, name, done) == done

\* optuna numbers a new trial with the count of trials the study already holds
next_trial_number(st, name, done) == Len(st[name].trials)

TotalTrials(st) ==
    Len(st["unconstrained"].trials) + Len(st["ci_correction"].trials) + Len(st["multi"].trials)

TypeOK ==
    /\ pc \in {"exited", "optimize"}
    /\ DOMAIN storage = Modes
    /\ n_done \in 0..MaxNTrials

NoCall == [called |-> FALSE]

MetricsIdle ==
    /\ pe_in = [actual |-> <<>>, predicted |-> <<>>]
    /\ pe_out = NoCall
    /\ data_in = [f |-> <<>>, district |-> "Berlin", hospital |-> <<>>, rki |-> <<>>,
                  start |-> 1, end |-> 1]
    /\ read_out = NoCall
    /\ calc_out = NoCall

OrchestratorInit ==
    /\ storage = [m \in Modes |-> NoStudy]
    /\ pc = "exited"
    /\ args = NoArgs
    /\ study = NoHandle
    /\ district = Unset
    /\ scenario = Unset
    /\ objective = Unset
    /\ n_done = 0
    /\ frames = <<>>
    /\ error = "none"
    /\ ran = [m \in Modes |-> 0]
    /\ read_paths = [m \in Modes |-> <<>>]

Init == OrchestratorInit /\ MetricsIdle

(***************************************************************************)
(* __main__, lines 197-218: parse the arguments, open or resume the study, *)
(* set the globals (multi), copy the arguments into the study, select the  *)
(* objective.                                                              *)
(***************************************************************************)
Main(a) ==
    /\ pc = "exited"
    /\ TotalTrials(storage) + a.n_trials <= MaxTotalTrials
    /\ LET name == study_name(a)
           dirs == main_directions(a)
           st1  == create_study(storage, name, dirs)
       IN /\ storage' = [st1 EXCEPT ![name].user_attrs = copy_args(@, a)]
          /\ study' = [study_name |-> name, n_objectives |-> Len(dirs)]
    /\ district' = IF a.objective = "multi" THEN a.district ELSE Unset
    /\ scenario' = IF a.objective = "multi" THEN a.scenario ELSE Unset
    /\ objective' = select_objective(a)
    /\ args' = a
    /\ pc' = "optimize"
    /\ n_done' = 0
    /\ error' = "none"
    /\ UNCHANGED <<frames, ran, read_paths, mvars>>

(***************************************************************************)
(* The objective functions.  Each is given by what it reads before the     *)
(* simulator is started, the output file it reads afterwards, the          *)
(* attributes it records and the value it returns.                         *)
(***************************************************************************)
\* lines 98-99, 118-119, 153-154: where the objective takes scenario and
\* district from; "KeyError" when the study's user_attrs lack the key
objective_config(fn, attrs, g_district, g_scenario) ==
    IF fn = "objective_multi"
    THEN [district |-> g_district, scenario |-> g_scenario]
    ELSE IF {"district", "scenario"} \subseteq DOMAIN attrs
         THEN [district |-> attrs["district"], scenario |-> attrs["scenario"]]
         ELSE [district |-> "KeyError", scenario |-> "KeyError"]

\* lines 106, 134, 172: the output file the objective reads, keyed by trial.number
output_path(fn, n) ==
    IF fn = "objective_unconstrained"
    THEN <<"output-calibration-unconstrained", n, "infections.txt">>
    ELSE <<"output-calibration", n, "infections.txt">>

\* lines 107, 137-141, 175-179: the attributes recorded on the trial
objective_attrs(fn) ==
    IF fn = "objective_unconstrained"
    THEN [k \in {"mean_infection_rate"} |-> "rate"]
    ELSE [error_cases |-> "e_cases", error_sick |-> "e_sick",
          error_critical |-> "e_critical", peak |-> "peak", dz |-> "dz"]

\* lines 109, 143, 181: the returned objective value(s)
objective_return(fn) ==
    CASE fn = "objective_unconstrained" -> <<"error">>
      [] fn = "objective_ci_correction" -> <<"e_cases">>
      [] OTHER -> <<"e_cases", "e_sick", "e_critical">>

\* lines 122-123 and 135, line 173: the comparison window the objective hands
\* to calc_multi_error; objective_unconstrained scores with infection_rate,
\* which takes none
objective_window(fn, attrs) ==
    CASE fn = "objective_multi" -> <<"2020-03-08", "2020-04-07">>
      [] fn = "objective_ci_correction" -> <<attrs["start"], attrs["end"]>>
      [] OTHER -> <<>>

\* what reading and scoring the output file raises: pandas raises
\* FileNotFoundError on a missing file; on a file whose rows do not cover the
\* district or the days, float() of an empty selection (line 57) raises
\* TypeError and idxmax / mean_squared_log_error (lines 76-84) ValueError
score_exception(fn, file) ==
    CASE file = "missing" -> "FileNotFoundError"
      [] file = "bad" /\ fn = "objective_unconstrained" -> "TypeError"
      [] file = "bad" -> "ValueError"
      [] OTHER -> "none"

\* lines 104, 132, 171: subprocess.run(cmd, shell=True) returns the completed
\* process whatever its return code; "none" is no exception
subprocess_run(returncode) == "none"

\* what the simulator can leave at the trial's output path: a successful run
\* writes the file (its rows may still not cover the district); a failed run
\* leaves none, a partial one, or an earlier run's file
FilesAfter(returncode) ==
    IF returncode = 0 THEN {"ok", "bad"} ELSE {"missing", "bad", "ok"}

ReturnCodes == {0, 1}

NewFrame(fn, n) ==
    [fn |-> fn, pc |-> "start", number |-> n, district |-> Unset, scenario |-> Unset,
     path |-> <<>>, returncode |-> -1, file |-> Unset, window |-> <<>>]

NewTrial(n) ==
    [number |-> n, state |-> "RUNNING", values |-> <<>>, user_attrs |-> NoAttrs]

Trials == storage[study.study_name].trials

Running == DOMAIN frames

\* the process ends: its memory is gone
ProcessExit(exc) ==
    /\ pc' = "exited"
    /\ args' = NoArgs
    /\ study' = NoHandle
    /\ district' = Unset
    /\ scenario' = Unset
    /\ objective' = Unset
    /\ n_done' = 0
    /\ frames' = <<>>
    /\ error' = exc

Drop(f, id) == [k \in DOMAIN f \ {id} |-> f[k]]

\* an exception leaves the objective: optuna marks the trial failed and, with
\* no catch given, re-raises it out of study.optimize
Raise(id, exc) ==
    /\ storage' = [storage EXCEPT ![study.study_name].trials[id].state = "FAIL"]
    /\ ProcessExit(exc)
    /\ UNCHANGED ran

(***************************************************************************)
(* study.optimize, line 220: the loop creates the next trial.              *)
(***************************************************************************)
Ask ==
    /\ pc = "optimize"
    /\ n_done + Cardinality(Running) < args.n_trials
    /\ Cardinality(Running) < n_jobs
    /\ LET name == study.study_name
           n    == next_trial_number(storage, name, n_done + Cardinality(Running))
           id   == Len(storage[name].trials) + 1
       IN /\ storage' = [storage EXCEPT ![name].trials = Append(@, NewTrial(n))]
          /\ frames' = (id :> NewFrame(objective, n)) @@ frames
          /\ ran' = [ran EXCEPT ![name] = @ + 1]
    /\ UNCHANGED <<pc, args, study, district, scenario, objective, n_done, error,
                   read_paths, mvars>>

(***************************************************************************)
(* The objective up to the start of the simulator (lines 95-104, 115-132,  *)
(* 150-171): trial.number, the suggested parameters, scenario and          *)
(* district, the command.                                                  *)
(***************************************************************************)
ObjStart(id) ==
    /\ id \in Running
    /\ UNCHANGED mvars
    /\ frames[id].pc = "start"
    /\ LET f   == frames[id]
           cfg == objective_config(f.fn, storage[study.study_name].user_attrs,
                                   district, scenario)
       IN IF cfg.district = "KeyError"
          THEN Raise(id, "KeyError") /\ UNCHANGED read_paths
          ELSE /\ frames' = [frames EXCEPT ![id] =
                     [f EXCEPT !.pc = "sim", !.district = cfg.district,
                               !.scenario = cfg.scenario,
                               !.path = output_path(f.fn, f.number)]]
               /\ UNCHANGED <<storage, pc, args, study, district, scenario,
                              objective, n_done, error, ran, read_paths>>

(***************************************************************************)
(* subprocess.run returns: the simulator has exited with some return code  *)
(* and left some file at the output path.                                  *)
(***************************************************************************)
SimExit(id, rc, file) ==
    /\ id \in Running
    /\ UNCHANGED mvars
    /\ frames[id].pc = "sim"
    /\ file \in FilesAfter(rc)
    /\ IF subprocess_run(rc) = "none"
       THEN /\ frames' = [frames EXCEPT ![id].pc = "read", ![id].returncode = rc,
                                        ![id].file = file]
            /\ UNCHANGED <<storage, pc, args, study, district, scenario,
                           objective, n_done, error, ran, read_paths>>
       ELSE Raise(id, subprocess_run(rc)) /\ UNCHANGED read_paths

(***************************************************************************)
(* The output file is read and scored and the attributes are recorded      *)
(* (lines 106-107, 134-141, 172-179).                                      *)
(***************************************************************************)
ObjScore(id) ==
    /\ id \in Running
    /\ UNCHANGED mvars
    /\ frames[id].pc = "read"
    /\ read_paths' = [read_paths EXCEPT ![study.study_name] = Append(@, frames[id].path)]
    /\ LET f   == frames[id]
           exc == score_exception(f.fn, f.file)
       IN IF exc # "none"
          THEN Raise(id, exc)
          ELSE /\ storage' = [storage EXCEPT
                     ![study.study_name].trials[id].user_attrs = objective_attrs(f.fn) @@ @]
               /\ frames' = [frames EXCEPT ![id].pc = "return",
                     ![id].window = objective_window(f.fn,
                                        storage[study.study_name].user_attrs)]
               /\ UNCHANGED <<pc, args, study, district, scenario, objective,
                              n_done, error, ran>>

(***************************************************************************)
(* The objective returns; optuna stores the value(s) and completes the     *)
(* trial.                                                                  *)
(***************************************************************************)
Tell(id) ==
    /\ id \in Running
    /\ frames[id].pc = "return"
    /\ storage' = [storage EXCEPT
          ![study.study_name].trials[id].values = objective_return(frames[id].fn),
          ![study.study_name].trials[id].state = "COMPLETE"]
    /\ frames' = Drop(frames, id)
    /\ n_done' = n_done + 1
    /\ UNCHANGED <<pc, args, study, district, scenario, objective, error, ran,
                   read_paths, mvars>>

(***************************************************************************)
(* study.optimize returns after n_trials trials and the script ends.       *)
(***************************************************************************)
Finish ==
    /\ pc = "optimize"
    /\ n_done = args.n_trials
    /\ Running = {}
    /\ ProcessExit("none")
    /\ UNCHANGED <<storage, ran, read_paths, mvars>>

TrialIds == 1..MaxTotalTrials

Next ==
    \/ \E a \in ArgsSet : Main(a)
    \/ Ask
    \/ \E id \in TrialIds : ObjStart(id)
    \/ \E id \in TrialIds, rc \in ReturnCodes, file \in {"ok", "bad", "missing"} :
          SimExit(id, rc, file)
    \/ \E id \in TrialIds : ObjScore(id)
    \/ \E id \in TrialIds : Tell(id)
    \/ Finish

Spec == Init /\ [][Next]_vars

(***************************************************************************)
(* Error metrics: percentage_error (lines 33-42).  Counts are integers;    *)
(* a quotient is kept exact as the pair [num, den], den = 0 standing for   *)
(* numpy's inf / nan of a division by zero.                                *)
(***************************************************************************)
ovars == <<storage, pc, args, study, district, scenario, objective, n_done, frames,
           error, ran, read_paths>>

Abs(x) == IF x < 0 THEN -x ELSE x

RECURSIVE SumSeq(_)
SumSeq(s) == IF s = <<>> THEN 0 ELSE s[1] + SumSeq(Tail(s))

\* np.mean(actual) as the quotient sum / length
np_mean(s) == [num |-> SumSeq(s), den |-> Len(s)]

\* a / (n / d) with d > 0
DivideByQuotient(a, q) == [num |-> a * q.den, den |-> q.num]

\* a value just above the threshold still measured with the mean
is_large_above(a) == Abs(a) > 15

\* line 38: abs(actual[j]) >= 15
is_large(a) == Abs(a) >= 15

\* lines 35-42; predicted[j] raises IndexError when predicted is the shorter
percentage_error(actual, predicted) ==
    IF Len(predicted) < Len(actual)
    THEN [called |-> TRUE, raised |-> "IndexError", res |-> <<>>]
    ELSE [called |-> TRUE, raised |-> "none",
          res |-> [j \in 1..Len(actual) |->
                     IF is_large(actual[j])
                     THEN [num |-> actual[j] - predicted[j], den |-> actual[j]]
                     ELSE DivideByQuotient(actual[j] - predicted[j], np_mean(actual))]]

ActualValues == {-20, 0, 10, 14, 15, 100}

PredictedValues == {0, 12, 80}

SeqsUpTo(S, n) == UNION { [1..k -> S] : k \in 0..n }

PEInit ==
    /\ pe_in \in [actual : SeqsUpTo(ActualValues, MaxLen),
                  predicted : SeqsUpTo(PredictedValues, MaxLen)]
    /\ pe_out = NoCall
    /\ data_in = [f |-> <<>>, district |-> "Berlin", hospital |-> <<>>, rki |-> <<>>,
                  start |-> 1, end |-> 1]
    /\ read_out = NoCall
    /\ calc_out = NoCall

CallPercentageError ==
    /\ ~pe_out.called
    /\ pe_out' = percentage_error(pe_in.actual, pe_in.predicted)
    /\ UNCHANGED <<pe_in, data_in, read_out, calc_out, ovars>>

\* the specification of the calls of percentage_error
InitPE == OrchestratorInit /\ PEInit

NextPE == CallPercentageError

SpecPE == InitPE /\ [][NextPE]_vars

\* two quotients are the same number (den = 0 only equals den = 0 of the same sign of num)
SameQuotient(p, q) ==
    IF p.den = 0 \/ q.den = 0
    THEN p.den = 0 /\ q.den = 0 /\ p.num * q.num >= 0 /\ ((p.num = 0) <=> (q.num = 0))
    ELSE p.num * q.den = q.num * p.den

\* C8: percentage_error is elementwise: res[i] is (actual[i] - predicted[i])
\* over actual[i] when |actual[i]| >= 15 and over mean(actual) otherwise; on
\* actual = [10, 100], predicted = [12, 80] it is -2/55 and 20/100.
C8_PercentageErrorElementwise ==
    (pe_out.called /\ pe_out.raised = "none") =>
        LET a == pe_in.actual
            p == pe_in.predicted
            r == pe_out.res
        IN /\ Len(r) = Len(a)
           /\ \A i \in 1..Len(a) :
                 /\ Abs(a[i]) >= 15 => r[i].num * a[i] = (a[i] - p[i]) * r[i].den
                 /\ Abs(a[i]) < 15 =>
                       \* r[i] * mean(a) = a[i] - p[i], mean(a) = SumSeq(a) / Len(a)
                       IF SumSeq(a) = 0
                       THEN r[i].den = 0
                       ELSE r[i].den # 0 /\
                            r[i].num * SumSeq(a) = (a[i] - p[i]) * Len(a) * r[i].den
           /\ (a = <<10, 100>> /\ p = <<12, 80>>) =>
                 /\ SameQuotient(r[1], [num |-> -2, den |-> 55])
                 /\ SameQuotient(r[2], [num |-> 20, den |-> 100])

\* C8 witness: the call on a two-element array with one value below 15 and
\* one at the threshold has returned.
C8_Witness ==
    /\ pe_out.called
    /\ pe_out.raised = "none"
    /\ pe_in.actual = <<10, 15>>
    /\ pe_in.predicted = <<12, 80>>

(***************************************************************************)
(* Data loader and multi-signal error: read_data (lines 13-30) and         *)
(* calc_multi_error (lines 67-89).  Dates are day numbers.  A pandas value *)
(* is [ok, num, den]: the quotient num/den when ok, NaN or an infinity     *)
(* when not.  The log-scaled errors are kept as names; what is modelled of *)
(* mean_squared_log_error is when it raises.                               *)
(***************************************************************************)
\* read_data's window=5
default_window == 5

NaN == [ok |-> FALSE, num |-> 0, den |-> 1]

Num(x) == [ok |-> TRUE, num |-> x, den |-> 1]

\* Series.diff(1): the first entry is NaN
diff1(s) == [i \in 1..Len(s) |-> IF i = 1 THEN NaN ELSE Num(s[i] - s[i - 1])]

RECURSIVE SumNum(_)
SumNum(s) == IF s = <<>> THEN 0 ELSE s[1].num + SumNum(Tail(s))

\* Series.rolling(w).mean(): NaN until w values are in the window, and while
\* one of them is NaN
rolling_mean(s, w) ==
    [i \in 1..Len(s) |->
        IF i >= w /\ \A j \in (i - w + 1)..i : s[j].ok
        THEN [ok |-> TRUE, num |-> SumNum(SubSeq(s, i - w + 1, i)), den |-> w]
        ELSE NaN]

Valid(s) == SelectSeq(s, LAMBDA x : x.ok)

\* s / s.mean(): the mean skips NaN; all entries have the denominator w, so
\* s[i] / mean = s[i].num * n / sum of the n valid numerators
norm(s) ==
    LET v == Valid(s)
        n == Len(v)
        total == SumNum(v)
    IN [i \in 1..Len(s) |->
          IF s[i].ok /\ n > 0 /\ total # 0
          THEN [ok |-> TRUE, num |-> s[i].num * n, den |-> total]
          ELSE NaN]

\* Series.cumsum()
RECURSIVE cumsum(_)
cumsum(s) ==
    IF s = <<>> THEN <<>>
    ELSE LET head == cumsum(SubSeq(s, 1, Len(s) - 1))
         IN Append(head, (IF head = <<>> THEN 0 ELSE head[Len(head)]) + s[Len(s)])

Column(rows, col) == [i \in 1..Len(rows) |-> rows[i][col]]

\* line 17: df = df[df.district == district]
filter_district(f, d) == SelectSeq(f, LAMBDA r : r.district = d)

\* lines 13-30
read_data(f, d, hospital, rki, w) ==
    LET df0      == filter_district(f, d)
        cases    == diff1(Column(df0, "nShowingSymptomsCumulative"))
        smoothed == rolling_mean(cases, w)
        normed   == norm(smoothed)
        df == [i \in 1..Len(df0) |->
                 [date |-> df0[i].date, district |-> df0[i].district,
                  nContagiousCumulative |-> df0[i].nContagiousCumulative,
                  cases |-> cases[i], casesNorm |-> normed[i]]]
        rcum  == cumsum(Column(rki, "cases"))
        rsm   == rolling_mean([i \in 1..Len(rki) |-> Num(rki[i].cases)], w)
        rnorm == norm(rsm)
        rk == [i \in 1..Len(rki) |->
                 [date |-> rki[i].date, cases |-> rki[i].cases,
                  casesCumulative |-> rcum[i], casesNorm |-> rnorm[i]]]
    IN [called |-> TRUE, raised |-> "none", df |-> df, hospital |-> hospital, rki |-> rk]

\* lines 72-74: the inclusive date window
in_window(rows, col, start, end) ==
    SelectSeq(rows, LAMBDA r : r[col] >= start /\ r[col] <= end)

\* sklearn's mean_squared_log_error raises ValueError on arrays of different
\* lengths, on NaN or infinity, and on negative values
msle_raises(y_true, y_pred) ==
    \/ Len(y_true) # Len(y_pred)
    \/ \E i \in DOMAIN y_true : ~y_true[i].ok \/ y_true[i].num * y_true[i].den < 0
    \/ \E i \in DOMAIN y_pred : ~y_pred[i].ok \/ y_pred[i].num * y_pred[i].den < 0

\* Series.tail(1)
tail1(rows) == IF rows = <<>> THEN <<>> ELSE <<rows[Len(rows)]>>

\* line 87: float(df.nContagiousCumulative.tail(1) / rki.casesCumulative.tail(1)).
\* The division aligns the two one-row series on their date index: rows of
\* different dates give two NaN, and float() of anything but one value raises
\* TypeError.  A division by zero raises nothing: it gives inf, or nan for 0/0.
dark_figure(df, rki) ==
    LET a == tail1(df)
        b == tail1(rki)
    IN IF a = <<>> /\ b = <<>>
       THEN [raised |-> "TypeError", kind |-> "none", num |-> 0, den |-> 1]
       ELSE IF a = <<>> \/ b = <<>>
       THEN [raised |-> "none", kind |-> "nan", num |-> 0, den |-> 1]
       ELSE IF a[1].date # b[1].date
       THEN [raised |-> "TypeError", kind |-> "none", num |-> 0, den |-> 1]
       ELSE IF b[1].casesCumulative # 0
       THEN [raised |-> "none", kind |-> "finite",
             num |-> a[1].nContagiousCumulative, den |-> b[1].casesCumulative]
       ELSE IF a[1].nContagiousCumulative # 0
       THEN [raised |-> "none", kind |-> "inf", num |-> a[1].nContagiousCumulative, den |-> 0]
       ELSE [raised |-> "none", kind |-> "nan", num |-> 0, den |-> 0]

\* line 76: the date of the first row with the largest cases; idxmax raises
\* ValueError on an empty frame, and on cases that are all NaN gives NaN, which
\* df.loc refuses with KeyError
peak_date(df) ==
    LET ok == {i \in DOMAIN df : df[i].cases.ok}
    IN IF df = <<>> THEN [raised |-> "ValueError", date |-> 0]
       ELSE IF ok = {} THEN [raised |-> "KeyError", date |-> 0]
       ELSE LET best == CHOOSE i \in ok :
                           \A j \in ok : /\ df[j].cases.num <= df[i].cases.num
                                         /\ (df[j].cases.num = df[i].cases.num => i <= j)
            IN [raised |-> "none", date |-> df[best].date]

CalcRaise(exc) ==
    [called |-> TRUE, raised |-> exc, error_cases |-> "none", error_sick |-> "none",
     error_critical |-> "none", peak |-> 0, dz |-> NaN, window |-> <<>>]

\* lines 67-89
calc_multi_error(f, d, start, end, hospital_csv, rki_csv) ==
    LET rd       == read_data(f, d, hospital_csv, rki_csv, default_window)
        df       == in_window(rd.df, "date", start, end)
        hospital == in_window(rd.hospital, "Datum", start, end)
        rki      == in_window(rd.rki, "date", start, end)
        peak     == peak_date(df)
        counts   == [i \in 1..Len(df) |-> Num(0)]
        beds     == [i \in 1..Len(hospital) |-> Num(0)]
        dz       == dark_figure(df, rki)
    IN IF peak.raised # "none" THEN CalcRaise(peak.raised)
       ELSE IF msle_raises(beds, counts) THEN CalcRaise("ValueError")
       ELSE IF msle_raises(Column(rki, "casesNorm"), Column(df, "casesNorm"))
       THEN CalcRaise("ValueError")
       ELSE IF dz.raised # "none" THEN CalcRaise(dz.raised)
       ELSE [called |-> TRUE, raised |-> "none", error_cases |-> "e_cases",
             error_sick |-> "e_sick", error_critical |-> "e_critical",
             peak |-> peak.date,
             dz |-> [ok |-> dz.kind = "finite", num |-> dz.num, den |-> dz.den],
             window |-> <<Column(df, "date"), Column(hospital, "Datum"),
                          Column(rki, "date")>>]

Days == 1..MaxDay

\* a simulation output: for every district in it one row per day, with k newly
\* symptomatic and c newly contagious persons per day
SimFile(ds, k, c) ==
    LET order == <<"Berlin", "unknown">>
        rows(d) == [i \in Days |->
                      [date |-> i, district |-> d,
                       nShowingSymptomsCumulative |-> k * i,
                       nContagiousCumulative |-> c * i]]
    IN (IF order[1] \in ds THEN rows(order[1]) ELSE <<>>)
         \o (IF order[2] \in ds THEN rows(order[2]) ELSE <<>>)

\* reported cases: none up to day z, one a day afterwards, over n days
RkiFile(n, z) == [i \in 1..n |-> [date |-> i, cases |-> IF i <= z THEN 0 ELSE 1]]

HospitalFile == [i \in Days |-> [Datum |-> i]]

DataInit ==
    /\ \E ds \in SUBSET Districts, k \in 0..1, c \in 0..MaxCount,
          n \in {MaxDay - 1, MaxDay}, z \in 0..MaxDay, d \in Districts,
          s \in Days, e \in Days :
          data_in = [f |-> SimFile(ds, k, c), district |-> d,
                     hospital |-> HospitalFile, rki |-> RkiFile(n, z),
                     start |-> s, end |-> e]
    /\ read_out = NoCall
    /\ calc_out = NoCall
    /\ pe_in = [actual |-> <<>>, predicted |-> <<>>]
    /\ pe_out = NoCall

CallReadData ==
    /\ ~read_out.called
    /\ read_out' = read_data(data_in.f, data_in.district, data_in.hospital,
                             data_in.rki, default_window)
    /\ UNCHANGED <<data_in, calc_out, pe_in, pe_out, ovars>>

CallCalcMultiError ==
    /\ ~calc_out.called
    /\ calc_out' = calc_multi_error(data_in.f, data_in.district, data_in.start,
                                    data_in.end, data_in.hospital, data_in.rki)
    /\ UNCHANGED <<data_in, read_out, pe_in, pe_out, ovars>>

DataNext == CallReadData \/ CallCalcMultiError

\* the specification of the calls of read_data and calc_multi_error
InitData == OrchestratorInit /\ DataInit

SpecData == InitData /\ [][DataNext]_vars

\* C9: whenever calc_multi_error returns, the reported cumulative case count
\* of the last day in the comparison window is not zero (a zero denominator
\* fails with DomainError instead) and dz is the last simulated cumulative
\* contagious count in the window divided by it.
C9_DarkFigureZeroDenominatorFails ==
    (calc_out.called /\ calc_out.raised = "none") =>
        LET R    == data_in.rki
            F    == data_in.f
            rin  == {i \in DOMAIN R : R[i].date >= data_in.start /\ R[i].date <= data_in.end}
            fin  == {i \in DOMAIN F : /\ F[i].district = data_in.district
                                      /\ F[i].date >= data_in.start
                                      /\ F[i].date <= data_in.end}
            rl   == CHOOSE i \in rin : \A j \in rin : j <= i
            fl   == CHOOSE i \in fin : \A j \in fin : j <= i
            reported == SumSeq([i \in 1..rl |-> R[i].cases])
        IN /\ rin # {}
           /\ fin # {}
           /\ reported # 0
           /\ calc_out.dz.ok
           /\ calc_out.dz.num * reported = F[fl].nContagiousCumulative * calc_out.dz.den

\* C10: when the requested district does not occur in the simulation output,
\* read_data raises DataError and returns no series.
C10_AbsentDistrictFails ==
    (read_out.called /\ \A i \in DOMAIN data_in.f : data_in.f[i].district # data_in.district)
        => read_out.raised = "DataError"

(***************************************************************************)
(* Properties of the orchestrator and the objectives.                      *)
(***************************************************************************)

\* C1: in every trial the objective function that runs is the one the
\* objective-mode selector names (unconstrained -> objective_unconstrained,
\* ci_correction -> objective_ci_correction, multi -> objective_multi).
C1_ObjectiveIsTheSelectedOne ==
    pc = "optimize" =>
        /\ objective =
             (CASE args.objective = "unconstrained" -> "objective_unconstrained"
                [] args.objective = "ci_correction" -> "objective_ci_correction"
                [] args.objective = "multi" -> "objective_multi")
        /\ \A id \in Running : frames[id].fn = objective

\* C2: a trial whose simulator exited non-zero never goes on to read and
\* score the output file: it has no attributes recorded and never reaches
\* the return of a score.
C2_FailedSimulatorNeverScored ==
    \A id \in Running :
        frames[id].returncode > 0 =>
            /\ frames[id].pc # "return"
            /\ Trials[id].user_attrs = NoAttrs

\* C3: for every study name the number of trials the storage holds equals
\* the number of trials run over all sessions on that name.
C3_TrialCountIsSumOfSessions ==
    \A m \in Modes : Len(storage[m].trials) = ran[m]

\* C3 witness: a one-trial session has started its trial on a study that
\* already held a trial of an earlier session.
C3_Witness ==
    /\ pc = "optimize"
    /\ args.n_trials = 1
    /\ Running # {}
    /\ Len(Trials) = 2
    /\ ran[study.study_name] = 2

\* C4: the study a session has open was created with the number of
\* directions of the session's own mode (three for multi, one otherwise),
\* and every completed trial in it holds that many values.
C4_ModeFixedForStudy ==
    pc = "optimize" =>
        LET s == storage[study.study_name]
        IN /\ Len(s.directions) = study.n_objectives
           /\ study.n_objectives = (IF args.objective = "multi" THEN 3 ELSE 1)
           /\ \A i \in DOMAIN s.trials :
                 s.trials[i].state = "COMPLETE" =>
                     Len(s.trials[i].values) = Len(s.directions)

\* C4 witness: a multi session has re-opened the multi study, which holds a
\* completed trial, while a single-objective study exists beside it.
C4_Witness ==
    /\ pc = "optimize"
    /\ args.objective = "multi"
    /\ n_done = 0
    /\ \E i \in DOMAIN Trials : Trials[i].state = "COMPLETE"
    /\ storage["unconstrained"].exists \/ storage["ci_correction"].exists

\* C5: at most one trial is in progress; while it is, every other trial in
\* the storage has finished (completed or failed), so a trial's parameters
\* are suggested only after all earlier trials were persisted.
C5_OneTrialAtATime ==
    /\ Cardinality(Running) <= 1
    /\ Cardinality({id \in Running : frames[id].pc = "sim"}) <= 1
    /\ \A m \in Modes : \A i \in DOMAIN storage[m].trials :
          storage[m].trials[i].state = "RUNNING" =>
              /\ pc = "optimize"
              /\ m = study.study_name
              /\ i \in Running
              /\ \A j \in 1..(i - 1) :
                    storage[m].trials[j].state \in {"COMPLETE", "FAIL"}

\* C5 witness: the second trial of a session is about to have its
\* parameters suggested, the first one being complete.
C5_Witness ==
    /\ pc = "optimize"
    /\ n_done = 1
    /\ \E id \in Running : frames[id].pc = "start" /\ id >= 2

\* C6: while a session optimizes, the study's user_attrs hold every
\* argument of the current run, and the district and scenario an objective
\* has taken are the current run's.
C6_ConfigCopiedBeforeTrials ==
    pc = "optimize" =>
        LET attrs == storage[study.study_name].user_attrs
        IN /\ \A k \in ArgKeys : k \in DOMAIN attrs /\ attrs[k] = args[k]
           /\ \A id \in Running :
                 frames[id].pc # "start" =>
                     /\ frames[id].district = args.district
                     /\ frames[id].scenario = args.scenario

\* C6 witness: in a resumed study (it holds an earlier session's trial) an
\* objective has taken its district and scenario.
C6_Witness ==
    /\ pc = "optimize"
    /\ args.n_trials = 1
    /\ Len(Trials) = 2
    /\ \E id \in Running : frames[id].pc = "sim" /\ frames[id].district = "unknown"

\* C7: within a study trial numbers strictly increase, and no output path
\* is read by two of its trials.
C7_DistinctOutputPaths ==
    \A m \in Modes :
        /\ \A i, j \in DOMAIN storage[m].trials :
              i < j => storage[m].trials[i].number < storage[m].trials[j].number
        /\ \A i, j \in DOMAIN read_paths[m] :
              i # j => read_paths[m][i] # read_paths[m][j]

\* C7 witness: a study's trials of two sessions have each read an output file.
C7_Witness ==
    \E m \in Modes :
        /\ Len(read_paths[m]) >= 2
        /\ pc = "optimize"
        /\ m = study.study_name
        /\ args.n_trials = 1

\* C11: every completed trial of the ci_correction and multi objectives has
\* error_cases, error_sick, error_critical, peak and dz recorded, and its
\* stored value is the recorded error_cases alone (ci_correction) or the
\* triple (error_cases, error_sick, error_critical) in that order (multi).
C11_ErrorAttrsRecordedAndReturned ==
    \A m \in {"ci_correction", "multi"} : \A i \in DOMAIN storage[m].trials :
        LET t  == storage[m].trials[i]
            ua == t.user_attrs
        IN t.state = "COMPLETE" =>
              /\ {"error_cases", "error_sick", "error_critical", "peak", "dz"}
                    \subseteq DOMAIN ua
              /\ t.values = (IF m = "multi"
                             THEN <<ua["error_cases"], ua["error_sick"], ua["error_critical"]>>
                             ELSE <<ua["error_cases"]>>)

\* C12: in every trial scored against the reference curves, the window
\* handed to calc_multi_error is the start/end configured for the run and
\* stored in the study's user_attrs.
C12_WindowIsTheConfiguredOne ==
    pc = "optimize" =>
        \A id \in Running :
            (frames[id].pc = "return" /\ frames[id].fn # "objective_unconstrained") =>
                LET attrs == storage[study.study_name].user_attrs
                IN /\ frames[id].window = <<args.start, args.end>>
                   /\ frames[id].window = <<attrs["start"], attrs["end"]>>

\* calc_multi_error restricts the simulated, the hospital and the reported
\* series to the days of the inclusive window [start, end] it is given.
SameInclusiveWindow ==
    (calc_out.called /\ calc_out.raised = "none") =>
        LET inside(rows, col) ==
                {rows[i][col] : i \in {j \in DOMAIN rows :
                     /\ rows[j][col] >= data_in.start
                     /\ rows[j][col] <= data_in.end}}
            dates(s) == {s[i] : i \in DOMAIN s}
            simrows == SelectSeq(data_in.f, LAMBDA r : r.district = data_in.district)
        IN /\ dates(calc_out.window[1]) = inside(simrows, "date")
           /\ dates(calc_out.window[2]) = inside(data_in.hospital, "Datum")
           /\ dates(calc_out.window[3]) = inside(data_in.rki, "date")

====
